---- MODULE Spec2Model ----
(***************************************************************************)
(* Model of the LightScope runner: the signature-checked self-update       *)
(* (SecureUpdater) and the supervision loop of the Linux runner            *)
(* (lightscope-runner.py) and of the Windows runner                        *)
(* (lightscope-runner-windows.py).                                         *)
(*                                                                         *)
(* One behaviour is one run of one runner process.  The variable platform  *)
(* fixes which of the two scripts runs; the Linux runner has a main thread *)
(* (in which the signal handler also runs), an Update-Checker thread, a    *)
(* Watchdog thread and the LightScope-Core threads it starts, the Windows  *)
(* runner has the main thread only.                                        *)
(***************************************************************************)
EXTENDS Integers, Sequences, FiniteSets, TLC

\* ---------------------------------------------------------------- bounds
\* Number of one-second iterations at the end of a backoff sleep that are
\* separate steps; the iterations before them are one step.
MaxPolls == 2
\* Largest number of file operations (rename, copy, chmod) that raise in
\* one run.
MaxIOErrors == 1

\* Longest payload, in bits, that is signed and verified.
MaxLen == 2
\* Number of bit positions of a signature that can be changed.
MaxSigBits == 2
\* Largest number of single-bit changes between signing and verifying.
MaxFlips == 1

\* ------------------------------------------------------- program constants
max_consecutive_failures == 5
win_max_consecutive_failures == 3
svc_max_consecutive_failures == 3
BackoffBase == 10
BackoffCap == 60

\* ---------------------------------------------------------------- values
None == "None"
Absent == "absent"
Partial == "partial"
Versions == {"1.0.0", "2.0.0"}

\* File contents of lightscope_core.py: A1 is the file the package installed,
\* A2 and A0 are files the publisher built and signed later (A0 carries no
\* ls_version line), E2 did not come from the publisher.
Artifacts == {"A1", "A2", "A0", "E2"}
Published == {"A1", "A2", "A0"}
\* What a download of lightscope_core.py can deliver.
Served == {"A2", "A0", "E2"}

\* sign_file: padding.PSS(mgf=padding.MGF1(hashes.SHA256()),
\* salt_length=padding.PSS.MAX_LENGTH), hashes.SHA256()
SignParams ==
    [padding |-> "PSS", mgf |-> "MGF1-SHA256", salt |-> "MAX_LENGTH",
     hash |-> "SHA256"]

\* private_key.sign(file_data, padding, algorithm): the signature bytes,
\* described by the key that made them, the bytes they were made over and
\* the parameters; delta is the set of bit positions in which the bytes
\* at hand differ from the bytes sign returned.
PssSign(key, data, params) ==
    [key |-> key, over |-> data, params |-> params, delta |-> {}]

\* Signature files the network can deliver: the publisher's signature over
\* a published artifact, a signature made with another key, and bytes that
\* are no signature at all.
Signatures ==
    {PssSign("publisher", a, SignParams) : a \in {"A2", "A0"}}
      \cup {PssSign("other", "E2", SignParams),
            PssSign("malformed", "none", SignParams)}

\* What re.search(r'ls_version\s*=\s*["\']([^"\']+)["\']', content) yields.
Marker(content) ==
    CASE content = "A1" -> "1.0.0"
      [] content = "A2" -> "2.0.0"
      [] content = "E2" -> "2.0.0"
      [] OTHER -> None

\* sign-and-upload.py extract_version: the same pattern on the file that
\* is about to be signed; the value goes into the manifest as "version"
\* (main refuses a file for which it is None).
ExtractVersion(content) == Marker(content)

\* Variant of LoadCurrentVersion: the file is not read again.
LoadCurrentVersionKept(cur, content) == cur

\* SecureUpdater.load_current_version: the attribute is assigned only when
\* the file exists and the pattern matches, else it keeps its value.
LoadCurrentVersion(cur, content) ==
    IF content # Absent /\ Marker(content) # None THEN Marker(content) ELSE cur

\* SecureUpdater.load_public_key: the key object, or None.
LoadPublicKey(keyfile) == IF keyfile = "present" THEN "publisher" ELSE None

\* Variant of VerifyParams: the runner verifies with another digest.
VerifyParamsOtherHash == [SignParams EXCEPT !.hash = "SHA512"]

\* verify_signature: padding.PSS(mgf=padding.MGF1(hashes.SHA256()),
\* salt_length=padding.PSS.MAX_LENGTH), hashes.SHA256()
VerifyParams ==
    [padding |-> "PSS", mgf |-> "MGF1-SHA256", salt |-> "MAX_LENGTH",
     hash |-> "SHA256"]

\* public_key.verify(signature, file_data, PSS(MGF1(SHA256)), SHA256):
\* accepts exactly the unchanged bytes of a signature made with the
\* matching private key over these bytes with these parameters.
PssVerify(key, sig, data) ==
    /\ sig.key = key /\ sig.over = data
    /\ sig.params = VerifyParams /\ sig.delta = {}

\* Variant of Handled: only except InvalidSignature.
HandledOnlyInvalid == {"InvalidSignature"}

\* verify_signature's handlers: except InvalidSignature, except Exception.
Handled == {"InvalidSignature", "OSError"}

\* The try block of verify_signature: the two files are read (open or read
\* may raise OSError), then public_key.verify returns or raises
\* InvalidSignature.
VerifyBody(key, file, sig, readable) ==
    IF ~readable THEN "OSError"
    ELSE IF PssVerify(key, sig, file) THEN "True" ELSE "InvalidSignature"

\* What a call of verify_signature does: it returns True or False, or an
\* exception leaves it ("raise").
VerifyOutcome(key, file, sig, readable) ==
    IF key = None THEN "False"
    ELSE IF VerifyBody(key, file, sig, readable) = "True" THEN "True"
    ELSE IF VerifyBody(key, file, sig, readable) \in Handled THEN "False"
    ELSE "raise"

\* Variant of verify_signature: a missing public key is not looked at.
VerifyIgnoringKey(key, file, sig) == sig.over = file

\* SecureUpdater.verify_signature
verify_signature(key, file, sig) ==
    VerifyOutcome(key, file, sig, TRUE) = "True"

Min(a, b) == IF a < b THEN a ELSE b

\* Variant of Backoff: the delay is not capped.
BackoffUncapped(n) == BackoffBase * (2 ^ (n - 1))

\* min(10 * (2 ** (consecutive_failures - 1)), 60)
Backoff(n) == Min(BackoffBase * (2 ^ (n - 1)), BackoffCap)

VARIABLES
    platform,               \* "linux" or "windows": which runner script runs
    live,                   \* content at BIN_DIR/lightscope_core.py
    backups,                \* UPDATES_DIR: the backup files, oldest first
    public_key,             \* SecureUpdater.public_key
    current_version,        \* SecureUpdater.current_version
    core_temp, sig_temp,    \* the two files in the temporary directory
    du_pc,                  \* position inside download_update
    du_verified,            \* verify_signature's result in the running call
    main_pc,                \* position of the main thread
    upd_pc,                 \* position of update_checker_thread
    check_due,              \* more than update_interval since last check
    wd_pc,                  \* position of watchdog_thread
    shutdown_event,
    update_available_event,
    module_loaded,          \* 'lightscope_core' in sys.modules
    core_alive,             \* core_thread.is_alive() of the latest thread
    old_cores,              \* earlier LightScope-Core threads still alive
    result,                 \* value returned by load_lightscope_core
    consecutive_failures,
    sleep_time,
    backoff_left,           \* iterations left of the backoff for-loop
    exit_status,            \* None while the process runs, else its status
    service,                \* LightScopeService: SvcDoRun's position and
                            \* locals, is_alive, hWaitStop, SvcStop
    hist                    \* observations used to state properties

vars == <<platform, live, backups, public_key, current_version,
          core_temp, sig_temp, du_pc, du_verified, main_pc, upd_pc, check_due,
          wd_pc, shutdown_event, update_available_event, module_loaded,
          core_alive,
          old_cores, result, consecutive_failures, sleep_time, backoff_left,
          exit_status, service, hist>>

envVars == <<platform, service>>
fsVars == <<live, backups>>
updVars == <<public_key, current_version>>
tmpVars == <<core_temp, sig_temp, du_verified>>
evVars == <<shutdown_event, update_available_event>>
coreVars == <<module_loaded, core_alive, old_cores>>
loopVars == <<result, consecutive_failures, sleep_time, backoff_left>>

\* exit_status while the process has not ended
NoStatus == -1

\* service where no LightScopeService takes part
NoService ==
    [pc |-> "none", failures |-> 0, sleep |-> 0, is_alive |-> FALSE,
     event |-> FALSE, stop_pc |-> "none", stop_in_wait |-> FALSE]

Running == exit_status = NoStatus

\* Variant of UpdAfterDownload: the restart is signalled whatever
\* download_update returned.
UpdAfterDownloadAlwaysSet(res) == "u_set"

\* update_checker_thread: if updater.download_update(): (set the event,
\* break) else: logger.error(...), then last_update_check = current_time
\* and the wait.
UpdAfterDownload(res) == IF res THEN "u_set" ELSE "u_wait"

\* Variant of AfterMark: the time of the check is not recorded.
AfterMarkForgotten(due) == due

\* update_checker_thread: last_update_check = current_time; the interval
\* starts anew.
AfterMark(due) == FALSE

\* ------------------------------------------------------- download_update
\* A return of download_update: the temporary directory is removed and the
\* caller goes on (main at startup on both platforms, update_checker_thread
\* on Linux, main's periodic check on Windows).
DownloadReturn(res, ioerr) ==
    /\ du_pc' = "idle"
    /\ core_temp' = None
    /\ sig_temp' = None
    /\ du_verified' = FALSE
    /\ hist' = [hist EXCEPT !.pre_live = None,
                            !.io_errors = IF ioerr THEN @ + 1 ELSE @,
                            !.beat_in_update = FALSE]
    /\ IF upd_pc = "u_download"
         THEN /\ upd_pc' = UpdAfterDownload(res)
              /\ check_due' = IF res THEN check_due ELSE AfterMark(check_due)
              /\ main_pc' = main_pc
         ELSE /\ upd_pc' = upd_pc
              /\ check_due' = check_due
              /\ main_pc' = CASE main_pc = "startup_download" ->
                                     IF res THEN "startup_installed"
                                            ELSE "startup_failed"
                              [] main_pc = "w_startup_download" ->
                                     IF res THEN "w_startup_installed"
                                            ELSE "w_startup_failed"
                              [] main_pc = "w_periodic_download" ->
                                     IF res THEN "w_exit0" ELSE "w_mark"
                              [] OTHER -> main_pc

\* Variant of VerifyGate: the result of verify_signature is not looked at.
VerifyGateSkipped(key, file, sig) == TRUE

\* if not self.verify_signature(core_temp_path, sig_temp_path): return False
VerifyGate(key, file, sig) == verify_signature(key, file, sig)

\* download_update up to the verification: the two urlretrieve calls fill
\* the private temporary directory (or raise), then verify_signature
\* decides.  The three statements touch nothing another thread can see and
\* are one step; the two files are kept in the model only when they passed,
\* a rejected pair is not looked at again.
FetchAndVerify ==
    /\ Running /\ du_pc = "fetch"
    /\ \/ \E a \in Served, s \in Signatures :
            IF VerifyGate(public_key, a, s)
              THEN /\ core_temp' = a
                   /\ sig_temp' = s
                   /\ du_verified' = TRUE
                   /\ du_pc' = "backup"
                   /\ UNCHANGED <<main_pc, upd_pc, check_due, hist>>
              ELSE /\ du_pc' = "rejected"
                   /\ UNCHANGED <<tmpVars, main_pc, upd_pc, check_due, hist>>
       \/ DownloadReturn(FALSE, FALSE)
    /\ UNCHANGED <<envVars, fsVars, updVars, wd_pc, evVars, coreVars,
                   loopVars, exit_status>>

\* logger.error("Signature verification failed - update aborted");
\* return False
RejectStep ==
    /\ Running /\ du_pc = "rejected"
    /\ DownloadReturn(FALSE, FALSE)
    /\ UNCHANGED <<envVars, fsVars, updVars, wd_pc, evVars, coreVars,
                   loopVars, exit_status>>

\* Variant of BackupAdd: the rename replaces the backup that is there.
BackupReplace(bs, f) == <<f>>

\* current_core.rename(backup_path): the backup directory gains the file
\* under a name of its own.
BackupAdd(bs, f) == Append(bs, f)

\* if current_core.exists(): current_core.rename(UPDATES_DIR /
\* f"lightscope_core_backup_{int(time.time())}.py").  Two calls of
\* download_update in one process are at least a minute apart (startup,
\* then the periodic checks), so the name is a new one each time.
BackupStep ==
    /\ Running /\ du_pc = "backup"
    /\ IF live # Absent
         THEN \/ /\ backups' = BackupAdd(backups, live)
                 /\ live' = Absent
                 /\ du_pc' = "copy_open"
                 /\ UNCHANGED <<tmpVars, main_pc, upd_pc, check_due, hist>>
              \/ /\ hist.io_errors < MaxIOErrors
                 /\ UNCHANGED <<live, backups>>
                 /\ DownloadReturn(FALSE, TRUE)
         ELSE /\ du_pc' = "copy_open"
              /\ UNCHANGED <<fsVars, tmpVars, main_pc, upd_pc, check_due,
                             hist>>
    /\ UNCHANGED <<envVars, updVars, wd_pc, evVars, coreVars, loopVars,
                   exit_status>>

\* shutil.copy2(core_temp_path, current_core), first half: the destination
\* is opened for writing, which creates it empty.
CopyOpen ==
    /\ Running /\ du_pc = "copy_open"
    /\ \/ /\ live' = Partial
          /\ du_pc' = "copy_write"
          /\ UNCHANGED <<tmpVars, main_pc, upd_pc, check_due, hist>>
       \/ /\ hist.io_errors < MaxIOErrors
          /\ UNCHANGED live
          /\ DownloadReturn(FALSE, TRUE)
    /\ UNCHANGED <<envVars, backups, updVars, wd_pc, evVars, coreVars,
                   loopVars, exit_status>>

\* shutil.copy2, second half: the bytes are written to the destination.
CopyWrite ==
    /\ Running /\ du_pc = "copy_write"
    /\ \/ /\ live' = core_temp
          /\ du_pc' = "chmod"
          /\ UNCHANGED <<tmpVars, main_pc, upd_pc, check_due, hist>>
       \/ /\ hist.io_errors < MaxIOErrors
          /\ UNCHANGED live
          /\ DownloadReturn(FALSE, TRUE)
    /\ UNCHANGED <<envVars, backups, updVars, wd_pc, evVars, coreVars,
                   loopVars, exit_status>>

\* copy2's copystat and, on Linux, os.chmod(current_core, 0o644)
ChmodStep ==
    /\ Running /\ du_pc = "chmod"
    /\ \/ /\ du_pc' = "reload"
          /\ UNCHANGED <<tmpVars, main_pc, upd_pc, check_due, hist>>
       \/ /\ hist.io_errors < MaxIOErrors
          /\ DownloadReturn(FALSE, TRUE)
    /\ UNCHANGED <<envVars, fsVars, updVars, wd_pc, evVars, coreVars,
                   loopVars, exit_status>>

\* self.load_current_version(); return True
ReloadStep ==
    /\ Running /\ du_pc = "reload"
    /\ current_version' = LoadCurrentVersion(current_version, live)
    /\ DownloadReturn(TRUE, FALSE)
    /\ UNCHANGED <<envVars, fsVars, public_key, wd_pc, evVars, coreVars,
                   loopVars, exit_status>>

download_update ==
    \/ FetchAndVerify \/ RejectStep \/ BackupStep \/ CopyOpen \/ CopyWrite
    \/ ChmodStep \/ ReloadStep

\* The answer urlopen(UPDATE_CHECK_URL) gives: no answer (error or
\* timeout), text that is not JSON, JSON that is not an object, an object
\* without a version, an object with an empty version, or an object with a
\* version.
Responses ==
    {"network_error", "not_json", "not_object", "no_version",
     "empty_version"} \cup Versions

\* Variant of CheckHandled: only except urllib.error.URLError.
CheckHandledOnlyURLError == {"URLError"}

\* check_for_updates' handlers: except URLError, except JSONDecodeError (in
\* the Linux runner), except Exception.
CheckHandled == {"URLError", "JSONDecodeError", "AttributeError"}

\* The try block of check_for_updates: urlopen and read, json.loads,
\* version_info.get('version'), if not latest_version: return False, then
\* the comparison self.current_version != latest_version.
CheckBody(cur, response) ==
    CASE response = "network_error" -> "URLError"
      [] response = "not_json" -> "JSONDecodeError"
      [] response = "not_object" -> "AttributeError"
      [] response \in {"no_version", "empty_version"} -> "False"
      [] OTHER -> IF cur # response THEN "True" ELSE "False"

\* What a call of check_for_updates does: it returns True or False, or an
\* exception leaves it ("raise").
CheckOutcome(cur, response) ==
    IF CheckBody(cur, response) \in {"True", "False"}
      THEN CheckBody(cur, response)
    ELSE IF CheckBody(cur, response) \in CheckHandled THEN "False"
    ELSE "raise"

\* SecureUpdater.check_for_updates
check_for_updates(cur, response) == CheckOutcome(cur, response) = "True"

\* ------------------------------------------------------------ Linux: main
L == Running /\ platform = "linux"

\* signal_handler(signum, frame): shutdown_event.set()
signal_handler ==
    /\ L /\ main_pc \notin {"l_import", "exited"}
    /\ shutdown_event' = TRUE
    /\ hist' = [hist EXCEPT !.signalled = TRUE,
                            !.shut_in_backoff =
                                @ \/ main_pc \in {"backoff", "backoff_sleep"}]
    /\ UNCHANGED <<envVars, check_due, fsVars, updVars, tmpVars, du_pc,
                   main_pc, upd_pc,
                   wd_pc, update_available_event, coreVars, loopVars,
                   exit_status>>

\* The module's top level up to the logging setup:
\*   try: import systemd.daemon; SYSTEMD_AVAILABLE = True
\*   except ImportError: SYSTEMD_AVAILABLE = False; logger.warning(...)
\* The name logger is bound further down (logger = logging.getLogger(...)),
\* so the except branch raises NameError.
SystemdImport(systemd) == IF systemd = "available" THEN "ok" ELSE "NameError"

\* The script is run: its top level executes, then main() begins (signal
\* handlers, ensure_directories, SecureUpdater(), notify_systemd_ready()).
\* An exception at the top level ends the interpreter with status 1.
ModuleImport ==
    /\ L /\ main_pc = "l_import"
    /\ \E systemd \in {"available", "missing"} :
         IF SystemdImport(systemd) = "ok"
           THEN main_pc' = "startup_check" /\ exit_status' = exit_status
           ELSE main_pc' = "import_failed" /\ exit_status' = 1
    /\ UNCHANGED <<envVars, check_due, fsVars, updVars, tmpVars, du_pc,
                   upd_pc, wd_pc, evVars, coreVars, loopVars, hist>>

\* main: if updater.check_for_updates(): ... updater.download_update()
StartupCheck ==
    /\ L /\ main_pc = "startup_check"
    /\ \E r \in Responses :
         IF check_for_updates(current_version, r)
           THEN /\ main_pc' = "startup_download"
                /\ du_pc' = "fetch"
                /\ hist' = [hist EXCEPT !.pre_live = live]
           ELSE /\ main_pc' = "start_threads"
                /\ du_pc' = du_pc
                /\ hist' = hist
    /\ UNCHANGED <<envVars, check_due, fsVars, updVars, tmpVars, upd_pc,
                   wd_pc, evVars,
                   coreVars, loopVars, exit_status>>

\* main: update_thread.start(); watchdog_bg_thread.start();
\* consecutive_failures = 0
StartThreads ==
    /\ L
    /\ main_pc \in {"start_threads", "startup_installed", "startup_failed"}
    /\ upd_pc' = "u_test"
    /\ wd_pc' = "wd_test"
    /\ consecutive_failures' = 0
    /\ main_pc' = "loop_test"
    /\ UNCHANGED <<envVars, check_due, fsVars, updVars, tmpVars, du_pc,
                   evVars, coreVars,
                   result, sleep_time, backoff_left, exit_status, hist>>

\* main: while not shutdown_event.is_set(): result = load_lightscope_core()
LoopTest ==
    /\ L /\ main_pc = "loop_test"
    /\ main_pc' = IF shutdown_event THEN "finish" ELSE "load_exists"
    /\ UNCHANGED <<envVars, check_due, fsVars, updVars, tmpVars, du_pc,
                   upd_pc, wd_pc,
                   evVars, coreVars, loopVars, exit_status, hist>>

\* load_lightscope_core: if not core_path.exists(): return False
LoadExists ==
    /\ L /\ main_pc = "load_exists"
    /\ IF live = Absent
         THEN result' = "False" /\ main_pc' = "dispatch"
         ELSE result' = result /\ main_pc' = "load_import"
    /\ UNCHANGED <<envVars, check_due, fsVars, updVars, tmpVars, du_pc,
                   upd_pc, wd_pc,
                   evVars, coreVars, consecutive_failures, sleep_time,
                   backoff_left, exit_status, hist>>

\* Variant of CoreNameBound: the name is bound on both paths.
CoreNameAlwaysBound(loaded) == TRUE

\* load_lightscope_core binds its local name lightscope_core only in the
\* else branch (import lightscope_core); after importlib.reload(...) the
\* name is unbound and its first use raises UnboundLocalError.
CoreNameBound(loaded) == ~loaded

\* load_lightscope_core: reload or import of the module, then the first uses
\* of the name lightscope_core (any exception makes the call return False),
\* then core_thread.start().
LoadImport ==
    /\ L /\ main_pc = "load_import"
    /\ \E ok \in BOOLEAN :
         /\ module_loaded' = (module_loaded \/ ok)
         /\ IF ok /\ CoreNameBound(module_loaded)
              THEN /\ old_cores' = old_cores + (IF core_alive THEN 1 ELSE 0)
                   /\ core_alive' = TRUE
                   /\ hist' = [hist EXCEPT !.starts = Min(@ + 1, 2)]
                   /\ result' = result
                   /\ main_pc' = "lw_poll"
              ELSE /\ UNCHANGED <<old_cores, core_alive, hist>>
                   /\ result' = "False"
                   /\ main_pc' = "dispatch"
    /\ UNCHANGED <<envVars, check_due, fsVars, updVars, tmpVars, du_pc,
                   upd_pc, wd_pc,
                   evVars, consecutive_failures, sleep_time, backoff_left,
                   exit_status>>

\* load_lightscope_core: one iteration of
\*   while core_thread.is_alive():
\*       if shutdown_event.is_set(): break
\*       elif update_available_event.is_set(): shutdown_event.set(); break
\*       time.sleep(1)
\* up to the write.  The three reads are one step: the thread only ends and
\* the events are only set while main is here, so reading them one after
\* the other yields no other outcome.
WaitPoll ==
    /\ L /\ main_pc = "lw_poll"
    /\ main_pc' = CASE ~core_alive -> "load_join"
                    [] shutdown_event -> "load_join"
                    [] update_available_event -> "lw_set"
                    [] OTHER -> main_pc
    /\ UNCHANGED <<envVars, check_due, fsVars, updVars, tmpVars, du_pc,
                   upd_pc, wd_pc,
                   evVars, coreVars, loopVars, exit_status, hist>>

\* load_lightscope_core: shutdown_event.set(); break
WaitSet ==
    /\ L /\ main_pc = "lw_set"
    /\ shutdown_event' = TRUE
    /\ main_pc' = "load_join"
    /\ UNCHANGED <<envVars, check_due, fsVars, updVars, tmpVars, du_pc,
                   upd_pc, wd_pc,
                   update_available_event, coreVars, loopVars, exit_status,
                   hist>>

\* core_thread.join(timeout=30): returns when the thread has ended or when
\* the 30 seconds are over; a thread that is still running keeps running.
JoinReturns(alive, timedout) == ~alive \/ timedout

\* load_lightscope_core: core_thread.join(timeout=30)
LoadJoin ==
    /\ L /\ main_pc = "load_join"
    /\ \E timedout \in BOOLEAN : JoinReturns(core_alive, timedout)
    /\ main_pc' = "load_ret"
    /\ UNCHANGED <<envVars, check_due, fsVars, updVars, tmpVars, du_pc,
                   upd_pc, wd_pc,
                   evVars, coreVars, loopVars, exit_status, hist>>

\* load_lightscope_core: return "restart" if update_available_event.is_set()
\* else True
LoadReturn ==
    /\ L /\ main_pc = "load_ret"
    /\ result' = IF update_available_event THEN "restart" ELSE "True"
    /\ main_pc' = "dispatch"
    /\ UNCHANGED <<envVars, check_due, fsVars, updVars, tmpVars, du_pc,
                   upd_pc, wd_pc,
                   evVars, coreVars, consecutive_failures, sleep_time,
                   backoff_left, exit_status, hist>>

\* Variant of TooManyFailures: > instead of >=.
TooManyFailuresLate(n) == n > max_consecutive_failures

\* main: if consecutive_failures >= max_consecutive_failures: sys.exit(1)
TooManyFailures(n) == n >= max_consecutive_failures

\* main: the three branches on result (restart / normal shutdown / failure)
Dispatch ==
    /\ L /\ main_pc = "dispatch"
    /\ CASE result = "restart" ->
              /\ consecutive_failures' = 0
              /\ main_pc' = "clear_update"
              /\ hist' = [hist EXCEPT !.restarts = Min(@ + 1, 2),
                                      !.delays = <<>>]
              /\ UNCHANGED <<sleep_time, backoff_left, exit_status>>
         [] result = "True" ->
              /\ main_pc' = "finish"
              /\ UNCHANGED <<consecutive_failures, sleep_time, backoff_left,
                             exit_status, hist>>
         [] OTHER ->
              /\ consecutive_failures' = consecutive_failures + 1
              /\ IF TooManyFailures(consecutive_failures')
                   THEN /\ exit_status' = 1
                        /\ main_pc' = "exited"
                        /\ UNCHANGED <<sleep_time, backoff_left, hist>>
                   ELSE /\ sleep_time' = Backoff(consecutive_failures')
                        /\ backoff_left' = sleep_time'
                        /\ main_pc' = "backoff"
                        /\ hist' = [hist EXCEPT
                                      !.delays = Append(@, sleep_time'),
                                      !.shut_in_backoff = @ \/ shutdown_event]
                        /\ UNCHANGED exit_status
    /\ UNCHANGED <<envVars, check_due, fsVars, updVars, tmpVars, du_pc,
                   upd_pc, wd_pc,
                   evVars, coreVars, result>>

\* main: update_available_event.clear()
ClearUpdate ==
    /\ L /\ main_pc = "clear_update"
    /\ update_available_event' = FALSE
    /\ main_pc' = "clear_shutdown"
    /\ UNCHANGED <<envVars, check_due, fsVars, updVars, tmpVars, du_pc,
                   upd_pc, wd_pc,
                   shutdown_event, coreVars, loopVars, exit_status, hist>>

\* main: shutdown_event.clear(); continue
ClearShutdown ==
    /\ L /\ main_pc = "clear_shutdown"
    /\ shutdown_event' = FALSE
    /\ main_pc' = "loop_test"
    /\ UNCHANGED <<envVars, check_due, fsVars, updVars, tmpVars, du_pc,
                   upd_pc, wd_pc,
                   update_available_event, coreVars, loopVars, exit_status,
                   hist>>

\* Variant of BackoffPoll: the loop does not look at shutdown_event.
BackoffPollNoBreak ==
    /\ L /\ main_pc = "backoff"
    /\ IF backoff_left = 0
         THEN main_pc' = "loop_test" /\ backoff_left' = 0
         ELSE main_pc' = "backoff_sleep" /\ backoff_left' = backoff_left
    /\ UNCHANGED <<envVars, check_due, fsVars, updVars, tmpVars, du_pc,
                   upd_pc, wd_pc,
                   evVars, coreVars, result, consecutive_failures, sleep_time,
                   exit_status, hist>>

\* main: for _ in range(sleep_time): if shutdown_event.is_set(): break
BackoffPoll ==
    /\ L /\ main_pc = "backoff"
    /\ IF backoff_left = 0 \/ shutdown_event
         THEN main_pc' = "loop_test" /\ backoff_left' = 0
         ELSE main_pc' = "backoff_sleep" /\ backoff_left' = backoff_left
    /\ UNCHANGED <<envVars, check_due, fsVars, updVars, tmpVars, du_pc,
                   upd_pc, wd_pc,
                   evVars, coreVars, result, consecutive_failures, sleep_time,
                   exit_status, hist>>

\* main: time.sleep(1) inside the backoff loop.  While more than MaxPolls
\* iterations are left, the step stands for all of them but the last
\* MaxPolls (iterations in which shutdown_event was found clear).
BackoffSleep ==
    /\ L /\ main_pc = "backoff_sleep"
    /\ backoff_left' = IF backoff_left - 1 > MaxPolls
                         THEN MaxPolls ELSE backoff_left - 1
    /\ main_pc' = "backoff"
    /\ hist' = [hist EXCEPT !.sleeps_after_shutdown =
                   IF hist.shut_in_backoff THEN Min(@ + 1, 2) ELSE @]
    /\ UNCHANGED <<envVars, check_due, fsVars, updVars, tmpVars, du_pc,
                   upd_pc, wd_pc,
                   evVars, coreVars, result, consecutive_failures, sleep_time,
                   exit_status>>

\* Exit status of the interpreter when main() returns.
ReturnStatus == 0

\* main: shutdown_event.set() after the loop
Finish ==
    /\ L /\ main_pc = "finish"
    /\ shutdown_event' = TRUE
    /\ main_pc' = "join_threads"
    /\ UNCHANGED <<envVars, check_due, fsVars, updVars, tmpVars, du_pc,
                   upd_pc, wd_pc,
                   update_available_event, coreVars, loopVars, exit_status,
                   hist>>

\* Variant of JoinThreads: leaving main ends the process with status 1.
JoinThreadsThenFail ==
    /\ L /\ main_pc = "join_threads"
    /\ exit_status' = ReturnStatus + 1
    /\ main_pc' = "exited"
    /\ UNCHANGED <<envVars, check_due, fsVars, updVars, tmpVars, du_pc,
                   upd_pc, wd_pc, evVars, coreVars, loopVars, hist>>

\* Variant of JoinThreads: join() without a timeout, main goes on only when
\* both threads have ended.
JoinThreadsNoTimeout ==
    /\ L /\ main_pc = "join_threads"
    /\ upd_pc = "u_done" /\ wd_pc = "wd_done"
    /\ exit_status' = ReturnStatus
    /\ main_pc' = "exited"
    /\ UNCHANGED <<envVars, check_due, fsVars, updVars, tmpVars, du_pc,
                   upd_pc, wd_pc, evVars, coreVars, loopVars, hist>>

\* main: update_thread.join(timeout=5); watchdog_bg_thread.join(timeout=5);
\* main returns and the interpreter exits with status 0 (daemon threads end
\* with it).
JoinThreads ==
    /\ L /\ main_pc = "join_threads"
    /\ exit_status' = ReturnStatus
    /\ main_pc' = "exited"
    /\ UNCHANGED <<envVars, check_due, fsVars, updVars, tmpVars, du_pc,
                   upd_pc, wd_pc,
                   evVars, coreVars, loopVars, hist>>

\* ----------------------------------------- Linux: update_checker_thread
\* while not shutdown_event.is_set(): if current_time - last_update_check >
\* update_interval: if updater.check_for_updates(): ...;
\* last_update_check = current_time
UpdTest ==
    /\ L /\ upd_pc = "u_test"
    /\ IF shutdown_event
         THEN /\ upd_pc' = "u_done"
              /\ UNCHANGED <<du_pc, check_due, hist>>
         ELSE \E r \in Responses :
                IF check_due /\ check_for_updates(current_version, r)
                  THEN /\ upd_pc' = "u_download"
                       /\ du_pc' = "fetch"
                       /\ check_due' = check_due
                       /\ hist' = [hist EXCEPT !.pre_live = live,
                                               !.dl_this_interval = TRUE]
                  ELSE /\ upd_pc' = "u_wait"
                       /\ check_due' = IF check_due THEN AfterMark(check_due)
                                                    ELSE check_due
                       /\ UNCHANGED <<du_pc, hist>>
    /\ UNCHANGED <<envVars, fsVars, updVars, tmpVars, main_pc, wd_pc, evVars,
                   coreVars, loopVars, exit_status>>

\* Time passes: more than update_interval (an hour) has gone by since
\* last_update_check.
IntervalElapses ==
    /\ L /\ upd_pc = "u_wait" /\ ~check_due
    /\ check_due' = TRUE
    /\ hist' = [hist EXCEPT !.dl_this_interval = FALSE]
    /\ UNCHANGED <<envVars, fsVars, updVars, tmpVars, du_pc, main_pc, upd_pc,
                   wd_pc, evVars, coreVars, loopVars, exit_status>>

\* Variant of UpdSet: the event is set while download_update is still
\* running.
UpdSetDuringDownload ==
    /\ L /\ upd_pc \in {"u_download", "u_set"}
    /\ update_available_event' = TRUE
    /\ upd_pc' = "u_done"
    /\ hist' = [hist EXCEPT !.set_while_running =
                   core_alive /\ main_pc = "lw_poll" /\ ~shutdown_event]
    /\ UNCHANGED <<envVars, check_due, fsVars, updVars, tmpVars, du_pc,
                   main_pc, wd_pc,
                   shutdown_event, coreVars, loopVars, exit_status>>

\* update_available_event.set(); break
UpdSet ==
    /\ L /\ upd_pc = "u_set"
    /\ update_available_event' = TRUE
    /\ upd_pc' = "u_done"
    /\ hist' = [hist EXCEPT !.set_while_running =
                   core_alive /\ main_pc = "lw_poll" /\ ~shutdown_event]
    /\ UNCHANGED <<envVars, check_due, fsVars, updVars, tmpVars, du_pc,
                   main_pc, wd_pc,
                   shutdown_event, coreVars, loopVars, exit_status>>

\* shutdown_event.wait(60)
UpdWait ==
    /\ L /\ upd_pc = "u_wait"
    /\ upd_pc' = "u_test"
    /\ UNCHANGED <<envVars, check_due, fsVars, updVars, tmpVars, du_pc,
                   main_pc, wd_pc,
                   evVars, coreVars, loopVars, exit_status, hist>>

\* ------------------------------------------------ Linux: watchdog_thread
\* Variant of WdTest: the heartbeat waits while download_update is running
\* (as if the two threads shared a lock).
WdTestLocked ==
    /\ L /\ wd_pc = "wd_test" /\ du_pc = "idle"
    /\ wd_pc' = IF shutdown_event THEN "wd_done" ELSE "wd_wait"
    /\ UNCHANGED <<envVars, check_due, fsVars, updVars, tmpVars, du_pc,
                   main_pc, upd_pc,
                   evVars, coreVars, loopVars, exit_status, hist>>

\* while not shutdown_event.is_set(): notify_systemd_watchdog()
WdTest ==
    /\ L /\ wd_pc = "wd_test"
    /\ wd_pc' = IF shutdown_event THEN "wd_done" ELSE "wd_wait"
    /\ hist' = [hist EXCEPT !.beat_in_update =
                   ~shutdown_event /\ upd_pc = "u_download"]
    /\ UNCHANGED <<envVars, check_due, fsVars, updVars, tmpVars, du_pc,
                   main_pc, upd_pc,
                   evVars, coreVars, loopVars, exit_status>>

\* shutdown_event.wait(15)
WdWait ==
    /\ L /\ wd_pc = "wd_wait"
    /\ wd_pc' = "wd_test"
    /\ UNCHANGED <<envVars, check_due, fsVars, updVars, tmpVars, du_pc,
                   main_pc, upd_pc,
                   evVars, coreVars, loopVars, exit_status, hist>>

\* ------------------------------------- Linux: LightScope-Core threads
\* The LightScope-Core threads that are alive: the one load_lightscope_core
\* started last, and earlier ones that outlived their join.
CoreThreads ==
    (IF core_alive THEN {"latest"} ELSE {})
      \cup (IF old_cores > 0 THEN {"earlier"} ELSE {})

EndThread(t) ==
    /\ core_alive' = IF t = "latest" THEN FALSE ELSE core_alive
    /\ old_cores' = IF t = "earlier" THEN old_cores - 1 ELSE old_cores

\* run_core: lightscope_core.lightscope_run() returns
CoreReturn ==
    /\ L
    /\ \E t \in CoreThreads : EndThread(t)
    /\ UNCHANGED <<envVars, check_due, fsVars, updVars, tmpVars, du_pc,
                   main_pc, upd_pc,
                   wd_pc, evVars, module_loaded, loopVars, exit_status, hist>>

\* run_core: lightscope_run() raises; except Exception: shutdown_event.set()
CoreCrash ==
    /\ L
    /\ \E t \in CoreThreads : EndThread(t)
    /\ shutdown_event' = TRUE
    /\ hist' = [hist EXCEPT !.shut_in_backoff =
                                @ \/ main_pc \in {"backoff", "backoff_sleep"},
                            !.crashed =
                                IF @ # "no" THEN @
                                ELSE IF main_pc = "lw_poll" /\ ~shutdown_event
                                          /\ ~update_available_event
                                       THEN "clean" ELSE "pending"]
    /\ UNCHANGED <<envVars, check_due, fsVars, updVars, tmpVars, du_pc,
                   main_pc, upd_pc,
                   wd_pc, update_available_event, module_loaded, loopVars,
                   exit_status>>

\* ---------------------------------------------------------- Windows: main
W == Running /\ platform = "windows"

\* main: check_admin_privileges() and check_npcap_installation(), else
\* sys.exit(1)
WinPrecheck ==
    /\ W /\ main_pc = "w_precheck"
    /\ \E ok \in BOOLEAN :
         IF ok THEN main_pc' = "w_startup_check" /\ exit_status' = exit_status
               ELSE main_pc' = "exited" /\ exit_status' = 1
    /\ UNCHANGED <<envVars, check_due, fsVars, updVars, tmpVars, du_pc,
                   upd_pc, wd_pc,
                   evVars, coreVars, loopVars, hist>>

\* main: startup check_for_updates() / download_update()
WinStartupCheck ==
    /\ W /\ main_pc = "w_startup_check"
    /\ \E r \in Responses :
         IF check_for_updates(current_version, r)
           THEN /\ main_pc' = "w_startup_download"
                /\ du_pc' = "fetch"
                /\ hist' = [hist EXCEPT !.pre_live = live]
           ELSE /\ main_pc' = "w_loop"
                /\ du_pc' = du_pc
                /\ hist' = hist
    /\ UNCHANGED <<envVars, check_due, fsVars, updVars, tmpVars, upd_pc,
                   wd_pc, evVars,
                   coreVars, loopVars, exit_status>>

\* Time passes: more than update_interval (24 hours) has gone by since
\* last_update_check.  That much time passes only where main waits without
\* a bound of its own, inside load_lightscope_core while lightscope_run()
\* runs; hist.overdue records that a further interval went by while the
\* check was already due.
WinIntervalElapses ==
    /\ W /\ main_pc = "w_running" /\ ~hist.overdue
    /\ check_due' = TRUE
    /\ hist' = [hist EXCEPT !.overdue = check_due]
    /\ UNCHANGED <<envVars, fsVars, updVars, tmpVars, du_pc, main_pc, upd_pc,
                   wd_pc, evVars, coreVars, loopVars, exit_status>>

\* main: if current_time - last_update_check > update_interval:
WinLoop ==
    /\ W
    /\ main_pc \in {"w_loop", "w_startup_installed", "w_startup_failed"}
    /\ main_pc' = IF check_due THEN "w_periodic_check" ELSE "w_load"
    /\ UNCHANGED <<envVars, check_due, fsVars, updVars, tmpVars, du_pc,
                   upd_pc, wd_pc,
                   evVars, coreVars, loopVars, exit_status, hist>>

\* main: periodic check_for_updates() / download_update()
WinPeriodicCheck ==
    /\ W /\ main_pc = "w_periodic_check"
    /\ \E r \in Responses :
         IF check_for_updates(current_version, r)
           THEN /\ main_pc' = "w_periodic_download"
                /\ du_pc' = "fetch"
                /\ hist' = [hist EXCEPT !.pre_live = live]
           ELSE /\ main_pc' = "w_mark"
                /\ du_pc' = du_pc
                /\ hist' = hist
    /\ UNCHANGED <<envVars, check_due, fsVars, updVars, tmpVars, upd_pc,
                   wd_pc, evVars,
                   coreVars, loopVars, exit_status>>

\* main: sys.exit(0) after a periodic update was installed
WinExitForUpdate ==
    /\ W /\ main_pc = "w_exit0"
    /\ exit_status' = 0
    /\ main_pc' = "exited"
    /\ UNCHANGED <<envVars, check_due, fsVars, updVars, tmpVars, du_pc,
                   upd_pc, wd_pc,
                   evVars, coreVars, loopVars, hist>>

\* main: last_update_check = current_time
WinMark ==
    /\ W /\ main_pc = "w_mark"
    /\ main_pc' = "w_load"
    /\ check_due' = AfterMark(check_due)
    /\ UNCHANGED <<envVars, fsVars, updVars, tmpVars, du_pc,
                   upd_pc, wd_pc,
                   evVars, coreVars, loopVars, exit_status, hist>>

\* Windows load_lightscope_core up to the call of lightscope_run(): the
\* file is looked up, the module imported.
WinLoad ==
    /\ W /\ main_pc = "w_load"
    /\ \E ok \in BOOLEAN :
         IF live # Absent /\ ok
           THEN /\ core_alive' = TRUE /\ module_loaded' = TRUE
                /\ main_pc' = "w_running" /\ result' = result
           ELSE /\ UNCHANGED <<core_alive, module_loaded>>
                /\ main_pc' = "w_dispatch" /\ result' = "False"
    /\ hist' = [hist EXCEPT !.loads = @ + 1]
    /\ UNCHANGED <<envVars, check_due, fsVars, updVars, tmpVars, du_pc,
                   upd_pc, wd_pc,
                   evVars, old_cores, consecutive_failures, sleep_time,
                   backoff_left, exit_status>>

\* Windows load_lightscope_core: lightscope_run() returns (True) or raises
\* (False)
WinCoreEnds ==
    /\ W /\ main_pc = "w_running"
    /\ core_alive' = FALSE
    /\ \E r \in {"True", "False"} : result' = r
    /\ main_pc' = "w_dispatch"
    /\ UNCHANGED <<envVars, check_due, fsVars, updVars, tmpVars, du_pc,
                   upd_pc, wd_pc,
                   evVars, module_loaded, old_cores, consecutive_failures,
                   sleep_time, backoff_left, exit_status, hist>>

\* Variant of WinTooManyFailures: > instead of >=.
WinTooManyFailuresLate(n) == n > win_max_consecutive_failures

\* Windows main: if consecutive_failures >= max_consecutive_failures:
\* sys.exit(1)
WinTooManyFailures(n) == n >= win_max_consecutive_failures

\* main: break on True, else count the failure, exit(1) at the limit or
\* compute the delay
WinDispatch ==
    /\ W /\ main_pc = "w_dispatch"
    /\ IF result = "True"
         THEN /\ exit_status' = 0 /\ main_pc' = "exited"
              /\ UNCHANGED <<consecutive_failures, sleep_time, hist>>
         ELSE /\ consecutive_failures' = consecutive_failures + 1
              /\ IF WinTooManyFailures(consecutive_failures')
                   THEN /\ exit_status' = 1 /\ main_pc' = "exited"
                        /\ UNCHANGED <<sleep_time, hist>>
                   ELSE /\ sleep_time' = Backoff(consecutive_failures')
                        /\ main_pc' = "w_sleep"
                        /\ hist' = [hist EXCEPT
                                      !.delays = Append(@, sleep_time')]
                        /\ UNCHANGED exit_status
    /\ UNCHANGED <<envVars, check_due, fsVars, updVars, tmpVars, du_pc,
                   upd_pc, wd_pc,
                   evVars, coreVars, result, backoff_left>>

\* main: time.sleep(sleep_time)
WinSleep ==
    /\ W /\ main_pc = "w_sleep"
    /\ main_pc' = "w_loop"
    /\ UNCHANGED <<envVars, check_due, fsVars, updVars, tmpVars, du_pc,
                   upd_pc, wd_pc,
                   evVars, coreVars, loopVars, exit_status, hist>>

\* ------------------------------------- Windows: LightScopeService
\* The runner process the service started last is the one the runner
\* variables describe; it is running while exit_status is NoStatus.
\* service.pc is the position of SvcDoRun (service thread), service.stop_pc
\* the position of SvcStop (control thread), service.event the state of the
\* auto-reset event hWaitStop, service.stop_in_wait whether SvcDoRun was in
\* its wait between two runners when SvcStop began.

\* Variant of SvcTooManyFailures: > instead of >=.
SvcTooManyFailuresLate(n) == n > svc_max_consecutive_failures

\* SvcDoRun: if consecutive_failures >= max_consecutive_failures: break
SvcTooManyFailures(n) == n >= svc_max_consecutive_failures

\* The steps of the service leave the runner and the files alone.
SvcOnly ==
    UNCHANGED <<platform, fsVars, updVars, tmpVars, du_pc, main_pc, upd_pc,
                check_due, wd_pc, evVars, coreVars, loopVars, exit_status,
                hist>>

\* SvcDoRun: while self.is_alive:
SvcLoopTest ==
    /\ platform = "windows" /\ service.pc = "loop_test"
    /\ service' = [service EXCEPT
                     !.pc = IF service.is_alive THEN "popen" ELSE "stopped"]
    /\ SvcOnly

\* SvcDoRun: self.runner_process = subprocess.Popen([python_executable,
\* str(runner_script)], cwd=...): a new runner process begins, which finds
\* the files the last one left.
SvcPopen ==
    /\ platform = "windows" /\ service.pc = "popen"
    /\ service' = [service EXCEPT !.pc = "watching"]
    /\ exit_status' = NoStatus
    /\ main_pc' = "w_precheck"
    /\ current_version' = LoadCurrentVersion(None, live)
    /\ module_loaded' = FALSE
    /\ result' = None
    /\ consecutive_failures' = 0
    /\ sleep_time' = 0
    /\ check_due' = FALSE
    /\ hist' = [hist EXCEPT !.live0 = live, !.delays = <<>>, !.loads = 0]
    /\ UNCHANGED <<platform, fsVars, public_key, tmpVars, du_pc, upd_pc,
                   wd_pc, evVars, core_alive, old_cores, backoff_left>>

\* SvcDoRun:
\*   while self.is_alive and self.runner_process.poll() is None:
\*       if WaitForSingleObject(self.hWaitStop, 5000) == WAIT_OBJECT_0: break
\* The loop is left when the condition is found false, or when the wait
\* found the event set (which resets it).
SvcWatch ==
    /\ platform = "windows" /\ service.pc = "watching"
    /\ \/ /\ ~service.is_alive \/ exit_status # NoStatus
          /\ service' = [service EXCEPT !.pc = "after_watch"]
       \/ /\ service.event
          /\ service' = [service EXCEPT !.pc = "after_watch",
                                        !.event = FALSE]
    /\ SvcOnly

\* SvcDoRun after the inner loop:
\*   if not self.is_alive: break
\*   exit_code = self.runner_process.returncode
\*   if exit_code == 0: consecutive_failures = 0; break
\*   else: consecutive_failures += 1
\*         if consecutive_failures >= max_consecutive_failures: break
\*         sleep_time = min(10 * (2 ** (consecutive_failures - 1)), 60)
SvcAfterWatch ==
    /\ platform = "windows" /\ service.pc = "after_watch"
    /\ service' =
         IF ~service.is_alive
           THEN [service EXCEPT !.pc = "stopped"]
         ELSE IF exit_status = 0
           THEN [service EXCEPT !.pc = "stopped", !.failures = 0]
         ELSE IF SvcTooManyFailures(service.failures + 1)
           THEN [service EXCEPT !.pc = "stopped", !.failures = @ + 1]
         ELSE [service EXCEPT !.pc = "backoff", !.failures = @ + 1,
                              !.sleep = Backoff(service.failures + 1)]
    /\ SvcOnly

\* SvcDoRun: if WaitForSingleObject(self.hWaitStop, sleep_time * 1000) ==
\* WAIT_OBJECT_0: break -- the wait returns at once when the event is set
\* (and resets it), else when the time is over.
SvcBackoffWait ==
    /\ platform = "windows" /\ service.pc = "backoff"
    /\ service' = IF service.event
                    THEN [service EXCEPT !.pc = "stopped", !.event = FALSE]
                    ELSE [service EXCEPT !.pc = "loop_test"]
    /\ SvcOnly

\* SvcStop: ReportServiceStatus(SERVICE_STOP_PENDING); self.is_alive = False
SvcStopBegin ==
    /\ platform = "windows" /\ service.stop_pc = "idle"
    /\ service.pc # "stopped"
    /\ service' = [service EXCEPT !.is_alive = FALSE, !.stop_pc = "check",
                                  !.stop_in_wait = (service.pc = "backoff")]
    /\ SvcOnly

\* SvcStop: if self.runner_process and self.runner_process.poll() is None:
\* terminate(), wait(timeout=10), kill() after the timeout.  The runner
\* process ends with the status TerminateProcess gives it, and the
\* variables of its main loop are gone with it.
SvcStopTerminate ==
    /\ platform = "windows" /\ service.stop_pc = "check"
    /\ service' = [service EXCEPT !.stop_pc = "set"]
    /\ IF exit_status = NoStatus
         THEN /\ exit_status' = 1
              /\ main_pc' = "exited"
              /\ core_alive' = FALSE
              /\ module_loaded' = FALSE
              /\ result' = None
              /\ consecutive_failures' = 0
              /\ sleep_time' = 0
              /\ check_due' = FALSE
              /\ hist' = [hist EXCEPT !.delays = <<>>, !.loads = 0,
                                      !.overdue = FALSE]
         ELSE UNCHANGED <<exit_status, main_pc, core_alive, module_loaded,
                          result, consecutive_failures, sleep_time,
                          check_due, hist>>
    /\ UNCHANGED <<platform, fsVars, updVars, tmpVars, du_pc, upd_pc,
                   wd_pc, evVars, old_cores, backoff_left>>

\* SvcStop: win32event.SetEvent(self.hWaitStop); SvcStop returns
SvcStopSetEvent ==
    /\ platform = "windows" /\ service.stop_pc = "set"
    /\ service' = [service EXCEPT !.event = TRUE, !.stop_pc = "returned"]
    /\ SvcOnly

SvcDoRun ==
    \/ SvcLoopTest \/ SvcPopen \/ SvcWatch \/ SvcAfterWatch
    \/ SvcBackoffWait

SvcStop == SvcStopBegin \/ SvcStopTerminate \/ SvcStopSetEvent

LightScopeService == SvcDoRun \/ SvcStop

\* ------------------------------------------------------- specification
InitialLive == {Absent, "A1"}

Init ==
    /\ platform \in {"linux", "windows"}
    /\ live \in InitialLive
    /\ backups = <<>>
    /\ \E keyfile \in {"present", "missing"} :
         public_key = LoadPublicKey(keyfile)
    /\ current_version = LoadCurrentVersion(None, live)
    /\ core_temp = None
    /\ sig_temp = None
    /\ du_pc = "idle"
    /\ du_verified = FALSE
    /\ main_pc = IF platform = "linux" THEN "l_import" ELSE "w_precheck"
    /\ upd_pc = "u_idle"
    /\ check_due = FALSE
    /\ wd_pc = "wd_idle"
    /\ shutdown_event = FALSE
    /\ update_available_event = FALSE
    /\ module_loaded = FALSE
    /\ core_alive = FALSE
    /\ old_cores = 0
    /\ result = None
    /\ consecutive_failures = 0
    /\ sleep_time = 0
    /\ backoff_left = 0
    /\ exit_status = NoStatus
    /\ service = IF platform = "windows"
                   THEN [NoService EXCEPT !.pc = "watching",
                                          !.is_alive = TRUE,
                                          !.stop_pc = "idle"]
                   ELSE NoService
    /\ hist = [live0 |-> live, pre_live |-> None, io_errors |-> 0,
               signalled |-> FALSE, starts |-> 0, restarts |-> 0,
               delays |-> <<>>,
               shut_in_backoff |-> FALSE, sleeps_after_shutdown |-> 0,
               set_while_running |-> FALSE, crashed |-> "no",
               beat_in_update |-> FALSE, dl_this_interval |-> FALSE,
               overdue |-> FALSE, loads |-> 0]

LinuxMain ==
    \/ ModuleImport \/ StartupCheck \/ StartThreads \/ LoopTest
    \/ LoadExists \/ LoadImport
    \/ WaitPoll \/ WaitSet
    \/ LoadJoin \/ LoadReturn \/ Dispatch \/ ClearUpdate \/ ClearShutdown
    \/ BackoffPoll \/ BackoffSleep \/ Finish \/ JoinThreads

update_checker_thread ==
    \/ UpdTest \/ UpdSet \/ UpdWait \/ IntervalElapses

watchdog_thread == WdTest \/ WdWait

WindowsMain ==
    \/ WinPrecheck \/ WinStartupCheck \/ WinLoop \/ WinPeriodicCheck
    \/ WinExitForUpdate \/ WinMark \/ WinLoad \/ WinCoreEnds \/ WinDispatch
    \/ WinSleep \/ WinIntervalElapses

Next ==
    \/ LinuxMain \/ update_checker_thread \/ watchdog_thread
    \/ CoreReturn \/ CoreCrash \/ signal_handler
    \/ download_update
    \/ WindowsMain
    \/ LightScopeService

Spec == Init /\ [][Next]_vars

\* The main thread of the Linux runner is scheduled as long as it can run;
\* nothing is assumed about signals, the network or the agent core.
FairSpec == Spec /\ WF_vars(LinuxMain)

\* ------------------------------------------------- signing and verifying
\* A second specification: one payload is signed by sign_file of
\* sign-and-upload.py (or the signature file holds other bytes), bits of the
\* payload or of the signature may change on the way, and the runner's
\* verify_signature is called on the two files.  The payload file is
\* core_temp, the signature file sig_temp, as in download_update.
Payloads == UNION {[1..n -> {0, 1}] : n \in 0..MaxLen}

PrivateKeys == {"publisher", "other"}

cryptoRest ==
    <<platform, live, backups, public_key, current_version, main_pc, upd_pc,
      check_due, wd_pc, shutdown_event, update_available_event,
      module_loaded, core_alive, old_cores, result, consecutive_failures,
      sleep_time, backoff_left, exit_status, service>>

CryptoInit ==
    /\ platform \in {"linux", "windows"}
    /\ live = "A1" /\ backups = <<>>
    /\ public_key \in {None} \cup PrivateKeys
    /\ current_version = LoadCurrentVersion(None, live)
    /\ core_temp \in Payloads
    /\ sig_temp = None
    /\ du_pc = "c_payload"
    /\ du_verified = FALSE
    /\ main_pc = "startup_download" /\ upd_pc = "u_idle" /\ wd_pc = "wd_idle"
    /\ check_due = FALSE
    /\ shutdown_event = FALSE /\ update_available_event = FALSE
    /\ module_loaded = FALSE /\ core_alive = FALSE /\ old_cores = 0
    /\ result = None /\ consecutive_failures = 0
    /\ sleep_time = 0 /\ backoff_left = 0
    /\ exit_status = NoStatus
    /\ service = NoService
    /\ hist = [signer |-> None, signed |-> core_temp, flips |-> 0,
               readable |-> TRUE, outcome |-> None]

\* sign_file(file_path, private_key, signature_path)
SignFile ==
    /\ du_pc = "c_payload"
    /\ \E k \in PrivateKeys :
         /\ sig_temp' = PssSign(k, core_temp, SignParams)
         /\ hist' = [hist EXCEPT !.signer = k]
    /\ du_pc' = "c_signed"
    /\ UNCHANGED <<cryptoRest, core_temp, du_verified>>

\* The signature file holds bytes that no key produced.
GarbageSignature ==
    /\ du_pc = "c_payload"
    /\ sig_temp' = PssSign("malformed", <<>>, SignParams)
    /\ hist' = [hist EXCEPT !.signer = "malformed"]
    /\ du_pc' = "c_signed"
    /\ UNCHANGED <<cryptoRest, core_temp, du_verified>>

\* One bit of the payload file changes before it is read.
FlipPayloadBit ==
    /\ du_pc = "c_signed" /\ hist.flips < MaxFlips
    /\ \E i \in 1..Len(core_temp) :
         core_temp' = [core_temp EXCEPT ![i] = 1 - @]
    /\ hist' = [hist EXCEPT !.flips = @ + 1]
    /\ UNCHANGED <<cryptoRest, sig_temp, du_pc, du_verified>>

\* One bit of the signature file changes before it is read.
FlipSignatureBit ==
    /\ du_pc = "c_signed" /\ hist.flips < MaxFlips
    /\ \E i \in 1..MaxSigBits :
         sig_temp' = [sig_temp EXCEPT !.delta =
                        IF i \in @ THEN @ \ {i} ELSE @ \cup {i}]
    /\ hist' = [hist EXCEPT !.flips = @ + 1]
    /\ UNCHANGED <<cryptoRest, core_temp, du_pc, du_verified>>

\* updater.verify_signature(core_temp_path, sig_temp_path)
VerifyCall ==
    /\ du_pc = "c_signed"
    /\ \E readable \in BOOLEAN :
         /\ hist' = [hist EXCEPT
                       !.readable = readable,
                       !.outcome = VerifyOutcome(public_key, core_temp,
                                                 sig_temp, readable)]
         /\ du_verified' = (hist'.outcome = "True")
    /\ du_pc' = "c_verified"
    /\ UNCHANGED <<cryptoRest, core_temp, sig_temp>>

CryptoNext ==
    \/ SignFile \/ GarbageSignature \/ FlipPayloadBit \/ FlipSignatureBit
    \/ VerifyCall

CryptoSpec == CryptoInit /\ [][CryptoNext]_vars

\* ------------------------------------------------- the update check
\* A third specification: one call of check_for_updates in main's startup
\* check, on either platform, for every installed file and every answer of
\* the server.
checkRest ==
    <<platform, live, backups, public_key, core_temp, sig_temp, du_verified,
      upd_pc, check_due, wd_pc, shutdown_event, update_available_event,
      module_loaded, core_alive, old_cores, result, consecutive_failures,
      sleep_time, backoff_left, service>>

CheckInit ==
    /\ platform \in {"linux", "windows"}
    /\ live \in {Absent, "A1", "A2", "A0"} /\ backups = <<>>
    /\ \E keyfile \in {"present", "missing"} :
         public_key = LoadPublicKey(keyfile)
    /\ current_version = LoadCurrentVersion(None, live)
    /\ core_temp = None /\ sig_temp = None
    /\ du_pc = "idle" /\ du_verified = FALSE
    /\ main_pc = IF platform = "linux" THEN "startup_check"
                                       ELSE "w_startup_check"
    /\ upd_pc = "u_idle" /\ wd_pc = "wd_idle" /\ check_due = FALSE
    /\ shutdown_event = FALSE /\ update_available_event = FALSE
    /\ module_loaded = FALSE /\ core_alive = FALSE /\ old_cores = 0
    /\ result = None /\ consecutive_failures = 0
    /\ sleep_time = 0 /\ backoff_left = 0
    /\ exit_status = NoStatus
    /\ service = NoService
    /\ \E r \in Responses :
         hist = [response |-> r, cur0 |-> current_version, outcome |-> None]

\* main: if updater.check_for_updates(): ... updater.download_update();
\* an exception leaving the call would reach main's except Exception:
\* sys.exit(1).
CheckCall ==
    /\ Running /\ main_pc \in {"startup_check", "w_startup_check"}
    /\ hist' = [hist EXCEPT
                  !.outcome = CheckOutcome(current_version, hist.response)]
    /\ CASE hist'.outcome = "True" ->
              /\ main_pc' = IF platform = "linux" THEN "startup_download"
                                                  ELSE "w_startup_download"
              /\ du_pc' = "fetch"
              /\ UNCHANGED exit_status
         [] hist'.outcome = "False" ->
              /\ main_pc' = IF platform = "linux" THEN "start_threads"
                                                  ELSE "w_loop"
              /\ UNCHANGED <<du_pc, exit_status>>
         [] OTHER ->
              /\ main_pc' = "exited" /\ exit_status' = 1
              /\ UNCHANGED du_pc
    /\ UNCHANGED <<checkRest, current_version>>

CheckNext == CheckCall

CheckSpec == CheckInit /\ [][CheckNext]_vars

\* ------------------------------------------------------------ properties
\* A step in which download_update returns False to its caller.
ReturnsFalse ==
    /\ du_pc # "idle" /\ du_pc' = "idle"
    /\ upd_pc = "u_download" => upd_pc' = "u_wait"
    /\ main_pc = "startup_download" => main_pc' = "startup_failed"
    /\ main_pc = "w_startup_download" => main_pc' = "w_startup_failed"
    /\ main_pc = "w_periodic_download" => main_pc' = "w_mark"

\* A step of a running runner that changes the live artifact, the backups
\* or current_version (a runner that is started anew reads the version
\* from the file it finds).
InstallTouched ==
    /\ Running
    /\ \/ live' # live \/ backups' # backups
       \/ current_version' # current_version

\* C1: on both platforms download_update changes the live path, the backup
\* directory and current_version only in a call whose downloaded artifact
\* and signature passed verify_signature; when they do not pass, the call
\* returns False and has changed none of them.
FailClosedInstall ==
    [][ /\ InstallTouched =>
              /\ du_pc \in {"backup", "copy_open", "copy_write", "reload"}
              /\ verify_signature(public_key, core_temp, sig_temp)
        /\ (du_pc = "fetch" /\ du_pc' = "backup") =>
              verify_signature(public_key, core_temp', sig_temp')
        /\ (du_pc = "rejected" /\ du_pc' # "rejected") =>
              ReturnsFalse /\ ~InstallTouched /\ live = hist.pre_live
      ]_vars

\* C1 witness: a call rejected the download; the installed file is in place.
RejectedUpdate ==
    /\ du_pc = "rejected"
    /\ live = "A1" /\ backups = <<>> /\ current_version = "1.0.0"

\* C2: when the live artifact exists at the start, the live path holds at
\* every instant a complete published artifact (the previous one or the
\* newly verified one), never nothing and never a partial file.
CrashSafeLivePath ==
    hist.live0 # Absent => live \in Published

\* C3: when download_update returns False because the backup rename or the
\* installation raised, the live path holds what it held before the call or
\* the complete new artifact.
IOFailureKeepsLivePath ==
    [][ (du_pc \in {"backup", "copy_open", "copy_write", "chmod"}
           /\ ReturnsFalse)
          => live' \in {hist.pre_live, core_temp} ]_vars

\* C4: (Linux) once a signal has set shutdown_event, main does not call
\* load_lightscope_core again.
ShutdownNeverLost ==
    [][ (platform = "linux" /\ hist.signalled)
          => ~(main_pc = "loop_test" /\ main_pc' = "load_exists") ]_vars

\* C5: (Linux) when update_available_event was set while the core was
\* running and no shutdown was requested, and main has stopped the core for
\* it, the next call of load_lightscope_core starts the core again (it
\* does not return False).
UpdateRestartsCore ==
    (platform = "linux" /\ hist.set_while_running /\ hist.restarts > 0
       /\ ~hist.signalled)
      => ~(main_pc = "dispatch" /\ result = "False")

\* C6: (Linux) the live artifact changes only while no LightScope-Core
\* thread is alive.
UpdateOnlyBetweenLifetimes ==
    [][ (platform = "linux" /\ live' # live) => CoreThreads = {} ]_vars

BackoffSequenceFive ==
    platform = "linux" =>
      \A n \in 1..5 :
        consecutive_failures = n =>
          /\ Len(hist.delays) = n
          /\ hist.delays[n] = <<10, 20, 40, 60, 60>>[n]

\* C8 amended: (Linux) after the n-th consecutive failure, n = 1..4, the
\* delays computed so far are the first n of 10, 20, 40, 60, each being
\* min(10 * 2^(n-1), 60), and the sleep loop starts with that many
\* iterations; after the 5th failure no delay is computed, the process has
\* exited.
BackoffSequenceFour ==
    platform = "linux" =>
      /\ \A n \in 1..4 :
           consecutive_failures = n =>
             /\ Len(hist.delays) = n
             /\ \A i \in 1..n :
                  /\ hist.delays[i] = <<10, 20, 40, 60>>[i]
                  /\ hist.delays[i] =
                       (IF 10 * (2 ^ (i - 1)) < 60 THEN 10 * (2 ^ (i - 1))
                                                   ELSE 60)
             /\ sleep_time = hist.delays[n]
      /\ consecutive_failures = 5 =>
             Len(hist.delays) = 4 /\ exit_status = 1

\* C8 witness: the fourth failure has been handled and its delay is 60.
FourDelays ==
    /\ platform = "linux" /\ main_pc = "backoff"
    /\ consecutive_failures = 4 /\ hist.delays = <<10, 20, 40, 60>>
    /\ backoff_left = 60

\* C9: (Linux) consecutive_failures stays in 0..5, at 5 the process has
\* exited with status 1 (so no further call of load_lightscope_core), and
\* only the restart branch ever lowers the counter.
FailureCeiling ==
    /\ [](platform = "linux" =>
            /\ consecutive_failures \in 0..5
            /\ consecutive_failures = 5 =>
                 (exit_status = 1 /\ main_pc = "exited"))
    /\ [][ (platform = "linux" /\ consecutive_failures' < consecutive_failures)
             => (main_pc = "dispatch" /\ result = "restart"
                   /\ consecutive_failures' = 0) ]_vars

\* C9 witness: the fifth consecutive failure ended the process.
FatalExit ==
    platform = "linux" /\ consecutive_failures = 5 /\ exit_status = 1

\* C10: (Linux) once shutdown_event is set while main is in the backoff
\* loop, main sleeps at most one more second, goes only along the way out
\* of the loop (no call of load_lightscope_core) and the process exits,
\* with status 0.
BackoffShutdown ==
    /\ [](hist.shut_in_backoff =>
            /\ hist.sleeps_after_shutdown <= 1
            /\ main_pc \in {"backoff", "backoff_sleep", "loop_test",
                            "finish", "join_threads", "exited"}
            /\ shutdown_event
            /\ exit_status \in {NoStatus, 0})
    /\ (hist.shut_in_backoff ~> exit_status = 0)

\* C10 witness: the event was set between the loop's test and its sleep,
\* one more second was slept, and the process has exited.
BackoffInterrupted ==
    /\ hist.shut_in_backoff /\ hist.sleeps_after_shutdown = 1
    /\ exit_status = 0

\* Main is in the supervision loop: the process runs and main has not left
\* the while loop of the Linux runner for the way out.
Supervising ==
    /\ platform = "linux" /\ Running
    /\ main_pc \notin {"finish", "join_threads", "exited"}

\* C11: (Linux) when lightscope_run() raised while neither shutdown nor
\* update was pending, main's next pass over the result of
\* load_lightscope_core takes the failure branch: consecutive_failures is
\* incremented and main goes to the backoff (or, at the limit, exits 1).
CrashCountsAsFailure ==
    [][ (platform = "linux" /\ hist.crashed = "clean" /\ ~hist.signalled
           /\ main_pc = "dispatch" /\ result # "restart"
           /\ main_pc' # "dispatch")
          => /\ consecutive_failures' = consecutive_failures + 1
             /\ main_pc' \in {"backoff", "exited"} ]_vars

\* Main has gone through the restart branch (load_lightscope_core returned
\* "restart", both events were cleared) and is in the supervision loop
\* again; no signal arrived, the core did not crash, no event is set.
AfterRestart ==
    /\ Supervising /\ hist.restarts > 0
    /\ main_pc \notin {"clear_update", "clear_shutdown"}
    /\ ~hist.signalled /\ hist.crashed = "no"
    /\ ~shutdown_event /\ ~update_available_event

\* C12: (Linux) after an update-triggered restart, as long as the process
\* runs without a shutdown request, the watchdog thread is in its loop.
WatchdogSurvivesRestart ==
    AfterRestart => wd_pc \in {"wd_test", "wd_wait"}

\* C13: (Linux) after an update-triggered restart the update-checker thread
\* is in its loop, so that periodic checks go on.
UpdateCheckerSurvivesRestart ==
    AfterRestart => upd_pc \in {"u_test", "u_wait", "u_download"}

\* C14: (Linux) while update_checker_thread is inside download_update, at
\* whatever step (the blocking network calls included), the watchdog thread
\* can take its next step; its loop test with shutdown_event clear sends the
\* notification and goes to the wait, and neither thread's step changes the
\* other's position.
HeartbeatNotBlocked ==
    /\ []((platform = "linux" /\ Running /\ upd_pc = "u_download"
             /\ wd_pc \in {"wd_test", "wd_wait"})
            => ENABLED watchdog_thread)
    /\ [][ (platform = "linux" /\ upd_pc = "u_download")
             => /\ (wd_pc = "wd_test" /\ wd_pc' # wd_pc /\ ~shutdown_event)
                    => (wd_pc' = "wd_wait" /\ hist'.beat_in_update)
                /\ wd_pc' # wd_pc => (upd_pc' = upd_pc /\ du_pc' = du_pc)
                /\ du_pc' # du_pc => wd_pc' = wd_pc ]_vars

\* C14 witness: a notification was sent while the update thread was in
\* download_update, which is still waiting for the network.
BeatDuringDownload ==
    /\ platform = "linux" /\ hist.beat_in_update
    /\ upd_pc = "u_download" /\ du_pc = "fetch" /\ wd_pc = "wd_wait"

\* C15: (Linux) the exit status is 0 exactly when main left the loop and
\* returned, which it does when the loop test finds shutdown_event set or
\* when load_lightscope_core returned True (shutdown during the core's run,
\* or the core returned); once main has begun it is 1 exactly when the
\* failure branch counted the max_consecutive_failures-th failure (before
\* that, an exception at the module's top level ends the process with 1).
\* Once main leaves the loop because of shutdown_event, the only status it
\* can end with is 0.
ExitStatusByCause ==
    /\ [](platform = "linux" =>
            /\ exit_status \in {NoStatus, 0, 1}
            /\ exit_status = 1 =>
                  \/ consecutive_failures = max_consecutive_failures
                  \/ main_pc = "import_failed"
            /\ exit_status = 0 =>
                  consecutive_failures < max_consecutive_failures
            /\ main_pc \in {"finish", "join_threads"}
                  => exit_status = NoStatus)
    /\ [][ platform = "linux" =>
             /\ exit_status' # exit_status =>
                   \/ main_pc = "join_threads" /\ exit_status' = 0
                   \/ main_pc = "l_import" /\ exit_status' = 1
                   \/ /\ main_pc = "dispatch" /\ result = "False"
                      /\ consecutive_failures' = max_consecutive_failures
                      /\ exit_status' = 1
             /\ (main_pc' = "finish" /\ main_pc # "finish") =>
                   \/ main_pc = "loop_test" /\ shutdown_event
                   \/ main_pc = "dispatch" /\ result = "True"
             /\ (main_pc = "loop_test" /\ shutdown_event
                   /\ main_pc' # main_pc) => main_pc' = "finish"
             /\ (main_pc = "dispatch" /\ result = "True"
                   /\ main_pc' # main_pc) => main_pc' = "finish"
             /\ main_pc = "finish" => main_pc' \in {"finish", "join_threads"}
             /\ main_pc = "join_threads" =>
                   main_pc' \in {"join_threads", "exited"} ]_vars

\* C15 witness: after four consecutive failures a signal ended the backoff
\* and the process has exited with status 0.
ShutdownAfterFourFailures ==
    /\ platform = "linux" /\ hist.signalled /\ hist.shut_in_backoff
    /\ consecutive_failures = 4 /\ exit_status = 0

\* C16: when load_public_key found no usable key file (public_key is
\* None), on both platforms verify_signature is False for every download,
\* so download_update never gets past the verification: the live path, the
\* backups and current_version stay as they were at startup and
\* update_available_event is never set; the key is not loaded later.
NoKeyNoInstall ==
    /\ [](public_key = None =>
            /\ \A a \in Served, s \in Signatures :
                  ~verify_signature(public_key, a, s)
            /\ live = hist.live0 /\ backups = <<>>
            /\ current_version = LoadCurrentVersion(None, hist.live0)
            /\ du_pc \in {"idle", "fetch", "rejected"}
            /\ ~update_available_event)
    /\ [][public_key' = public_key]_vars

\* C16 witness: without a key the Linux runner has started the installed
\* core and supervises it, while the update thread's download was rejected.
RunningWithoutKey ==
    /\ platform = "linux" /\ public_key = None
    /\ core_alive /\ main_pc = "lw_poll" /\ live = "A1"
    /\ upd_pc = "u_download" /\ du_pc = "rejected"

\* A step in which download_update, called by update_checker_thread,
\* returns False: every return but the one after load_current_version.
UpdDownloadFails ==
    /\ upd_pc = "u_download"
    /\ du_pc \in {"fetch", "rejected", "backup", "copy_open", "copy_write",
                  "chmod"}
    /\ du_pc' = "idle"

\* A step in which update_checker_thread, with shutdown_event clear, passes
\* its loop body without starting a download (no check due, or
\* check_for_updates returned False, which it does on every error).
UpdCheckFails ==
    /\ upd_pc = "u_test" /\ ~shutdown_event
    /\ upd_pc' \notin {"u_test", "u_download"}

\* C17: (Linux) a failed check or download in update_checker_thread leaves
\* both events, the core threads and main where they are, and takes the
\* thread to its wait, from which it goes to the next loop test.
UpdateFailureHarmless ==
    /\ [][ (platform = "linux" /\ (UpdDownloadFails \/ UpdCheckFails))
             => /\ upd_pc' = "u_wait"
                /\ UNCHANGED <<evVars, coreVars, main_pc, loopVars,
                               exit_status>> ]_vars
    /\ [][ (upd_pc = "u_wait" /\ upd_pc' # upd_pc) => upd_pc' = "u_test" ]_vars
    /\ []((platform = "linux" /\ Running /\ upd_pc = "u_wait")
            => ENABLED UpdWait)

\* C17 witness: the update thread's download failed with a file error after
\* the backup rename; the thread waits for its next check, the core runs
\* on and no event is set.
FailedUpdateCoreRuns ==
    /\ platform = "linux" /\ upd_pc = "u_wait" /\ hist.io_errors > 0
    /\ live = Absent /\ core_alive /\ main_pc = "lw_poll"
    /\ ~shutdown_event /\ ~update_available_event

\* C18: (Linux) download_update is never running for two callers: the two
\* background threads are not started before main's startup check and
\* install are over, and whenever download_update is under way exactly one
\* of main (at startup) and update_checker_thread is inside it.  The update
\* thread starts a download only when more than update_interval has passed
\* since its last recorded check, and not twice within one interval.
NoConcurrentInstall ==
    /\ [](platform = "linux" =>
            /\ main_pc \in {"startup_check", "startup_download",
                            "startup_installed", "startup_failed",
                            "start_threads"}
                  => (upd_pc = "u_idle" /\ wd_pc = "wd_idle")
            /\ du_pc # "idle" =>
                  (main_pc = "startup_download") # (upd_pc = "u_download")
            /\ du_pc = "idle" =>
                  (main_pc # "startup_download" /\ upd_pc # "u_download"))
    /\ [][ (platform = "linux" /\ upd_pc # "u_download"
              /\ upd_pc' = "u_download")
             => (check_due /\ ~hist.dl_this_interval) ]_vars

\* C18 witness: the update thread is in download_update for the second
\* time; its first call, an interval earlier, failed after the backup
\* rename while the core was running.
SecondPeriodicDownload ==
    /\ platform = "linux" /\ upd_pc = "u_download" /\ du_pc = "fetch"
    /\ hist.io_errors > 0 /\ backups = <<"A1">> /\ live = Absent
    /\ core_alive

\* C19: verify_signature never raises, it returns True or False; it returns
\* True exactly when a key is loaded, both files could be read and the
\* signature is the unchanged output of the matching private key over the
\* very bytes of the file, so it returns False without a key, for malformed
\* signature bytes, for another key, for other file bytes and for an
\* unreadable file.
VerifyNeverRaises ==
    du_pc = "c_verified" =>
      /\ hist.outcome \in {"True", "False"}
      /\ du_verified = (hist.outcome = "True")
      /\ hist.outcome = "True" <=>
            /\ public_key # None /\ hist.readable
            /\ sig_temp.key = public_key /\ sig_temp.over = core_temp
            /\ sig_temp.delta = {}

\* C19 witness: a file could not be read although key and signature were
\* right; the call returned False.
UnreadableFileRejected ==
    /\ du_pc = "c_verified" /\ ~hist.readable /\ hist.outcome = "False"
    /\ public_key = "publisher" /\ hist.signer = "publisher"
    /\ hist.flips = 0

\* C20: for every payload, the signature sign_file made with a private key
\* is accepted by verify_signature with the matching public key when
\* nothing changed, and rejected after exactly one bit of the payload or of
\* the signature changed; whatever is accepted is the signed payload with
\* the signature as it was made.
SignVerifyRoundTrip ==
    (du_pc = "c_verified" /\ hist.signer \in PrivateKeys
       /\ public_key = hist.signer /\ hist.readable)
      => /\ hist.flips = 0 => hist.outcome = "True"
         /\ hist.flips = 1 => hist.outcome = "False"
         /\ hist.outcome = "True" =>
               (core_temp = hist.signed /\ sig_temp.delta = {})

\* C20 witness: one bit of a two-bit payload changed after signing and the
\* matching key rejected it.
FlippedPayloadRejected ==
    /\ du_pc = "c_verified" /\ hist.signer = "publisher"
    /\ public_key = "publisher" /\ hist.readable
    /\ hist.flips = 1 /\ Len(core_temp) = 2 /\ core_temp # hist.signed
    /\ sig_temp.delta = {} /\ hist.outcome = "False"

\* C21: on both platforms check_for_updates returns True exactly when the
\* answer is a JSON object with a non-empty version that differs from
\* current_version (None included); for every other answer it returns
\* False; it never raises and never changes current_version, and
\* download_update is entered exactly when it returned True.
CheckForUpdatesTotal ==
    hist.outcome # None =>
      /\ hist.outcome \in {"True", "False"}
      /\ hist.outcome = "True" <=>
            (hist.response \in Versions /\ hist.response # hist.cur0)
      /\ current_version = hist.cur0
      /\ (du_pc = "fetch") <=> (hist.outcome = "True")
      /\ exit_status = NoStatus

\* C21 witness: the server answered with JSON that is not an object; the
\* call returned False and no install was started.
MalformedAnswerNoInstall ==
    /\ hist.response = "not_object" /\ hist.outcome = "False"
    /\ du_pc = "idle" /\ main_pc \in {"start_threads", "w_loop"}

\* C22: on both platforms the backup directory changes only in the backup
\* step of download_update, by gaining one file that holds the bytes the
\* live path held when the call began, every older backup staying as it
\* is; a call that found a live file and got as far as the installation
\* (so every call that returns True) has made that one backup.
BackupsOnlyGrow ==
    /\ [][ backups' # backups =>
             /\ du_pc = "backup" /\ du_pc' = "copy_open"
             /\ live # Absent /\ live = hist.pre_live
             /\ Len(backups') = Len(backups) + 1
             /\ \A i \in 1..Len(backups) : backups'[i] = backups[i]
             /\ backups'[Len(backups')] = hist.pre_live ]_vars
    /\ []((du_pc \in {"copy_open", "copy_write", "chmod", "reload"}
             /\ hist.pre_live # Absent)
            => (Len(backups) >= 1
                  /\ backups[Len(backups)] = hist.pre_live))

\* C22 witness: two installs succeeded in one run, each left its backup.
TwoBackups ==
    /\ du_pc = "idle" /\ backups = <<"A1", "A2">>
    /\ live \in Published /\ hist.io_errors = 0

\* C23: on Linux, when load_lightscope_core has returned after a stop was
\* requested (result True or "restart"), the LightScope-Core thread it
\* started is no longer running.
StoppedCoreNotRunning ==
    (platform = "linux" /\ main_pc = "dispatch"
       /\ result \in {"True", "restart"})
      => ~core_alive

\* C24: on Linux the two events are independent latches: shutdown_event
\* is never set because update_available_event was found set, and an
\* event that is set stays set until the restart branch of main clears it.
LatchesIndependent ==
    [][ platform = "linux" =>
          /\ (~shutdown_event /\ shutdown_event') => main_pc # "lw_set"
          /\ (shutdown_event /\ ~shutdown_event')
                => main_pc = "clear_shutdown"
          /\ (update_available_event /\ ~update_available_event')
                => main_pc = "clear_update" ]_vars

\* C25: on Linux update_available_event is set only by
\* update_checker_thread, in the step that directly follows a
\* download_update that returned True, which it does only after the
\* downloaded file passed verify_signature and was copied to the live
\* path; so whenever the event is set or main is in its restart branch,
\* the live file is one that a served signature verifies under the
\* runner's public key.
RestartOnlyAfterVerifiedInstall ==
    /\ [][ (~update_available_event /\ update_available_event')
             => (upd_pc = "u_set" /\ upd_pc' = "u_done") ]_vars
    /\ [][ (upd_pc # "u_set" /\ upd_pc' = "u_set")
             => /\ upd_pc = "u_download"
                /\ du_pc = "reload" /\ du_pc' = "idle"
                /\ du_verified
                /\ verify_signature(public_key, core_temp, sig_temp)
                /\ live = core_temp /\ live' = live ]_vars
    /\ []((platform = "linux"
             /\ \/ update_available_event
                \/ upd_pc = "u_set"
                \/ main_pc \in {"clear_update", "clear_shutdown"}
                \/ (main_pc = "dispatch" /\ result = "restart"))
            => \E sig \in Signatures :
                  verify_signature(public_key, live, sig))

\* C25 witness: main is about to take the restart branch, the live file is
\* the verified 2.0.0 artifact the update thread installed.
RestartWithVerifiedLive ==
    /\ platform = "linux" /\ main_pc = "dispatch" /\ result = "restart"
    /\ update_available_event /\ live = "A2" /\ current_version = "2.0.0"

\* C26: on both platforms, when download_update returns True,
\* current_version is the ls_version marker of the file now at the live
\* path (None when that file carries no marker), never the version from
\* before the call.
VersionFollowsLive ==
    [][ (du_pc = "reload" /\ du_pc' = "idle")
          => current_version' = Marker(live') ]_vars

\* C27: on Linux neither a failing notification nor a missing systemd
\* module ends the runner: whatever the import of systemd.daemon does,
\* the runner goes on to main with its exit status unset, and a running
\* watchdog thread leaves its loop only when shutdown_event is set.
NotifyFailureHarmless ==
    [][ platform = "linux" =>
          /\ (main_pc = "l_import" /\ main_pc' # main_pc)
                => (main_pc' = "startup_check" /\ exit_status' = NoStatus)
          /\ (wd_pc = "wd_test" /\ wd_pc' # wd_pc /\ ~shutdown_event)
                => wd_pc' = "wd_wait" ]_vars

\* C28: on both platforms the startup update check and the install it may
\* start are over before the agent core is loaded for the first time and,
\* on Linux, before the update-checker and watchdog threads are started;
\* when the startup install fails the runner goes on to its loop with the
\* exit status unset, and the file at the live path is still the one that
\* was installed when the runner started.
StartupOrdering ==
    /\ [](main_pc \in {"startup_check", "startup_download",
                       "startup_installed", "startup_failed", "w_precheck",
                       "w_startup_check", "w_startup_download",
                       "w_startup_installed", "w_startup_failed"}
            => /\ ~core_alive /\ ~module_loaded
               /\ upd_pc = "u_idle" /\ wd_pc = "wd_idle")
    /\ [][ (main_pc \in {"startup_failed", "w_startup_failed"}
              /\ main_pc' # main_pc)
             => /\ main_pc' \in {"loop_test", "w_periodic_check", "w_load"}
                /\ exit_status' = NoStatus ]_vars
    /\ [](main_pc \in {"startup_failed", "w_startup_failed"}
            => live = hist.live0)

\* C29: on Windows, after the runner has installed a periodic update and
\* exited with status 0, the service goes on supervising: it does not
\* leave its loop but starts a new runner process.
ServiceRestartsAfterUpdate ==
    [][ (platform = "windows" /\ main_pc = "exited" /\ exit_status = 0
           /\ result # "True" /\ service.pc = "after_watch"
           /\ service.is_alive /\ service'.pc # service.pc)
          => service'.pc \in {"loop_test", "popen", "backoff"} ]_vars

\* C30: on Windows, while the runner process is alive an update check is
\* made once in every update_interval, also while the agent core runs
\* without failing: no further interval goes by while a check is due.
PeriodicCheckEveryInterval ==
    platform = "windows" => ~hist.overdue

\* C31: in the Windows runner consecutive_failures stays in 0..3; the
\* process has ended with status 1 whenever the counter is 3; the sleeps
\* after the first and the second failure are 10 and 20 seconds; and one
\* runner process calls load_lightscope_core at most three times.
WinFailureCeiling ==
    platform = "windows" =>
      /\ consecutive_failures \in 0..win_max_consecutive_failures
      /\ consecutive_failures = win_max_consecutive_failures
            => (exit_status = 1 /\ main_pc = "exited")
      /\ hist.loads <= win_max_consecutive_failures
      /\ hist.delays = SubSeq(<<10, 20>>, 1, Min(consecutive_failures, 2))
      /\ main_pc = "w_sleep"
            => sleep_time = hist.delays[consecutive_failures]

\* C31 witness: the third failure in a row ended the Windows runner with
\* status 1 after sleeps of 10 and 20 seconds and three calls.
WinFatalExit ==
    /\ platform = "windows" /\ main_pc = "exited" /\ exit_status = 1
    /\ consecutive_failures = 3 /\ hist.loads = 3
    /\ hist.delays = <<10, 20>>

\* A runner process begins.
RunnerStarts == exit_status # NoStatus /\ exit_status' = NoStatus

StopLeavesNoRunner ==
    /\ []((platform = "windows" /\ service.stop_pc = "returned")
            => exit_status # NoStatus)
    /\ [][ (platform = "windows" /\ service.stop_pc = "returned")
             => ~RunnerStarts ]_vars

\* C34: on Linux, once main has left the execution loop its next steps
\* are its own and can always be taken, wherever the update-checker and
\* watchdog threads are: it sets shutdown_event, then the two joins end
\* (each after at most its timeout) and the process ends with status 0,
\* the daemon threads ending with it.
ExitIndependentOfThreads ==
    /\ [](platform = "linux" =>
            /\ main_pc = "finish" => (Running /\ ENABLED Finish)
            /\ main_pc = "join_threads" =>
                  (Running /\ shutdown_event /\ ENABLED JoinThreads))
    /\ [][ platform = "linux" =>
             /\ (main_pc = "finish" /\ main_pc' # main_pc)
                   => (main_pc' = "join_threads" /\ shutdown_event')
             /\ (main_pc = "join_threads" /\ main_pc' # main_pc)
                   => (main_pc' = "exited" /\ exit_status' = 0)
             /\ main_pc = "exited" =>
                   (main_pc' = "exited" /\ upd_pc' = upd_pc
                      /\ wd_pc' = wd_pc /\ du_pc' = du_pc) ]_vars

\* C34 witness: the process has ended with status 0 while the update
\* thread was still inside download_update waiting for the network.
ExitedDuringDownload ==
    /\ platform = "linux" /\ main_pc = "exited" /\ exit_status = 0
    /\ upd_pc = "u_download" /\ du_pc = "fetch" /\ wd_pc # "wd_done"

\* C35: on both platforms, when download_update returns True for a file
\* for which sign-and-upload produced a manifest (its version is the
\* file's ls_version marker), check_for_updates against that manifest
\* returns False, at the return and as long as the runner stays where the
\* successful return left it; current_version changes only at such a
\* return or when a runner process begins.
InstalledVersionConverges ==
    /\ [][ (du_pc = "reload" /\ du_pc' = "idle"
              /\ ExtractVersion(live') # None)
             => ~check_for_updates(current_version', ExtractVersion(live'))
        ]_vars
    /\ []((Running /\ ExtractVersion(live) # None
             /\ \/ main_pc \in {"startup_installed", "w_startup_installed",
                                "w_exit0"}
                \/ upd_pc = "u_set")
            => ~check_for_updates(current_version, ExtractVersion(live)))
    /\ [][ current_version' # current_version
             => (du_pc = "reload" \/ service.pc = "popen") ]_vars

\* C35 witness: the runner installed the published 2.0.0 file over 1.0.0
\* at startup; a check against the manifest of that file finds nothing
\* to do.
InstalledAndUpToDate ==
    /\ main_pc \in {"startup_installed", "w_startup_installed"}
    /\ live = "A2" /\ backups = <<"A1">>
    /\ ExtractVersion(live) = "2.0.0"
    /\ ~check_for_updates(current_version, ExtractVersion(live))

====
